---- MODULE Spec2Model ----
(***************************************************************************)
(* Control logic of src/models/train.py: greedy_decode, run_validation and *)
(* train_model.  The numeric model (encode / decode / projection) is an    *)
(* external collaborator: its arg-max output is a nondeterministic token   *)
(* id, its parameters are abstracted to the number of optimizer updates    *)
(* they have received.                                                     *)
(***************************************************************************)
EXTENDS Integers, Sequences, FiniteSets, TLC

\* ---------------------------------------------------------------- bounds
MaxLen == 3          \* largest max_len / seq_len explored
VocabSize == 5       \* target vocabulary: 4 special ids and one word
MaxValBatches == 5   \* longest validation loader explored
MaxExamples == 3     \* largest num_examples explored
MaxBatchSize == 2    \* largest leading dimension of a validation batch
MaxEpochs == 2       \* largest config['num_epochs'] explored
MaxRuns == 2         \* train_model runs on the same model folder
LabelLen == 2        \* flattened label positions of one training batch
NumBatches == 2      \* len(train_data_loader): batches per epoch
SeqLen == 2          \* config['seq_len'] of the train_model runs

\* run_validation(..., num_examples=2)
DefaultNumExamples == 2

\* ------------------------------------------------------------ tokenizers
\* A tokenizer built by get_or_build_tokenizer gives the special tokens the
\* ids 0..3 in the order of the trainer's special_tokens list.
BuiltTokenizer == [unk |-> 0, pad |-> 1, sos |-> 2, eos |-> 3]

\* A tokenizer read back with Tokenizer.from_file has whatever ids the file
\* holds; one such file with a different assignment of the special ids.
LoadedTokenizer == [unk |-> 3, pad |-> 0, sos |-> 1, eos |-> 2]

Tokenizers == {BuiltTokenizer, LoadedTokenizer}

Vocab == 0 .. (VocabSize - 1)

Min(a, b) == IF a <= b THEN a ELSE b

VARIABLES
  entry,           \* function the process runs: "none" | "greedy_decode" | "run_validation" | "train_model"
  tokenizer_src, tokenizer_tgt,
  \* greedy_decode
  gpc,             \* "idle" | "enter" | "loop" | "return" | "done"
  max_len,
  decoder_input,
  encode_calls,    \* calls of model.encode in the current greedy_decode
  steps,           \* calls of model.decode in the current greedy_decode
  exit_via,        \* "none" | "max_len" | "eos": the break that left the loop
  encoder_output,  \* the encode call that produced it, 0 before any
  decode_calls,    \* what each decode step of the current greedy_decode was given
  \* run_validation
  vpc,             \* "idle" | "enter" | "for" | "decoding" | "report" | "returned" | "assert_failed"
  validation_ds,   \* the loader: sequence of batch sizes
  num_examples,
  count,
  consumed,        \* batches the for loop has drawn from the loader
  decoded,         \* batches greedy_decode was invoked on
  reported,        \* batches whose texts were printed
  model_out,
  \* the model and the optimizer
  mode,            \* model.training: "train" | "eval"
  params,          \* model parameters: optimizer updates they have received
  opt_state,       \* optimizer state: steps the optimizer has taken
  grad,            \* TRUE while the parameters hold gradients
  \* train_model
  tpc,             \* "idle" | "for_epoch" | "EpochRunning" | "Validating" | "Checkpointing" | "Done" | "Failed"
  bpc,             \* position inside the batch loop
  run,             \* train_model runs started on the model folder
  preload, num_epochs, val_data_loader,
  state,           \* the checkpoint read by torch.load: <<>> or <<content>>
  initial_epoch, epoch, global_step,
  ignore_index,    \* loss_fn.ignore_index
  batches,         \* batches of the current epoch drawn from train_data_loader
  label,           \* flattened label ids of the current batch
  loss_positions,  \* positions of label that enter the loss reduction
  disk,            \* the model folder: checkpoint file name -> content
  last_save,       \* the latest torch.save of this run: <<>> or <<what it did>>
  logged,          \* steps at which this run wrote 'train loss' to the writer
  trained, validated, saved,  \* epochs of this run whose phase has finished
  epoch_end,       \* training state after the last optimizer step of the epoch
  \* BilingualDataset
  dpc,             \* "idle" | "getitem" | "encoded" | "length_error"
  src_ids, tgt_ids,   \* token ids of the raw pair
  seq_len,
  example          \* the encoded example: <<>> or <<its tensors>>

gvars == <<gpc, max_len, decoder_input, encode_calls, steps, exit_via, encoder_output, decode_calls>>
vvars == <<vpc, validation_ds, num_examples, count, consumed, decoded, reported, model_out>>
mvars == <<params, opt_state, grad>>
cvars == <<run, preload, num_epochs, val_data_loader, state, initial_epoch, ignore_index>>
bvars == <<bpc, batches, label, loss_positions>>
hvars == <<trained, validated, saved, epoch_end>>
tvars == <<tpc, cvars, epoch, global_step, bvars, disk, last_save, logged, hvars>>
toks == <<tokenizer_src, tokenizer_tgt>>
evars == <<dpc, src_ids, tgt_ids, seq_len, example>>
vars == <<entry, toks, evars, gvars, vvars, mode, mvars, tvars>>

\* --------------------------------------------------------- greedy_decode
InitDecoderInput_mC3(tok) == <<tok.eos>>
\* line 28: decoder_input = [[sos_idx]]
InitDecoderInput(tok) == <<tok.sos>>

ReachedMaxLen_mC1(d, L) == Len(d) = L + 1
\* line 30: decoder_input.size(1) == max_len
ReachedMaxLen(d, L) == Len(d) = L

IsEos_mC2(next_word, tok) == FALSE
\* line 44: next_word == eos_idx
IsEos(next_word, tok) == next_word = tok.eos

\* bilingual_dataset.causal_mask: position i may attend to j iff j <= i
causal_mask(size) ==
  [p \in (0 .. size - 1) \X (0 .. size - 1) |-> p[2] <= p[1]]

DecodeCall_mC13(enc, d) ==
  [encoder_output |-> enc + Len(d), source_mask |-> "source_mask", k |-> Len(d),
   decoder_mask |-> causal_mask(Len(d)), logits_at |-> Len(d) - 1]
DecodeCall_mC14(enc, d) ==
  [encoder_output |-> enc, source_mask |-> "source_mask", k |-> Len(d),
   decoder_mask |-> causal_mask(Len(d) + 1), logits_at |-> Len(d) - 1]
\* lines 33-39: the arguments of model.decode for a prefix d of k tokens, and
\* the position out[:, -1] whose logits are projected
DecodeCall(enc, d) ==
  [encoder_output |-> enc, source_mask |-> "source_mask", k |-> Len(d),
   decoder_mask |-> causal_mask(Len(d)), logits_at |-> Len(d) - 1]

\* line 21: a caller invokes greedy_decode on one source sequence
Call_greedy_decode ==
  /\ entry = "none"
  /\ entry' = "greedy_decode"
  /\ \E L \in 1 .. MaxLen : max_len' = L
  /\ gpc' = "enter"
  /\ UNCHANGED <<decoder_input, encode_calls, steps, exit_via, encoder_output, decode_calls>>
  /\ UNCHANGED <<toks, evars, vvars, mode, mvars, tvars>>

\* lines 22-28: look up the ids, run the encoder once, start from [SOS]
GD_Enter ==
  /\ gpc = "enter"
  /\ encode_calls' = encode_calls + 1
  /\ encoder_output' = encode_calls + 1
  /\ decoder_input' = InitDecoderInput(tokenizer_tgt)
  /\ gpc' = "loop"
  /\ UNCHANGED <<max_len, steps, exit_via, decode_calls>>
  /\ UNCHANGED <<entry, toks, evars, vvars, mode, mvars, tvars>>

\* lines 29-31: top of the loop, leave when the prefix has max_len tokens
GD_BreakMaxLen ==
  /\ gpc = "loop"
  /\ ReachedMaxLen(decoder_input, max_len)
  /\ gpc' = "return"
  /\ exit_via' = "max_len"
  /\ UNCHANGED <<max_len, decoder_input, encode_calls, steps, encoder_output, decode_calls>>
  /\ UNCHANGED <<entry, toks, evars, vvars, mode, mvars, tvars>>

\* lines 32-45: one decode step; next_word is the model's arg-max token
GD_Step ==
  /\ gpc = "loop"
  /\ ~ReachedMaxLen(decoder_input, max_len)
  /\ Len(decoder_input) < MaxLen + 2
  /\ decode_calls' = Append(decode_calls, DecodeCall(encoder_output, decoder_input))
  /\ \E next_word \in Vocab :
       /\ decoder_input' = Append(decoder_input, next_word)
       /\ steps' = steps + 1
       /\ IF IsEos(next_word, tokenizer_tgt)
            THEN gpc' = "return" /\ exit_via' = "eos"
            ELSE gpc' = "loop" /\ exit_via' = exit_via
  /\ UNCHANGED <<max_len, encode_calls, encoder_output>>
  /\ UNCHANGED <<entry, toks, evars, vvars, mode, mvars, tvars>>

OnFatal_mC16 == "Checkpointing"
\* line 230: the call has no handler, an exception ends train_model
OnFatal == "Failed"

\* lines 36, 69 and 230: a model call of a decode step raises (a resource or
\* numerical error); no caller handles it
GD_Raise ==
  /\ gpc = "loop"
  /\ ~ReachedMaxLen(decoder_input, max_len)
  /\ gpc' = "raised"
  /\ vpc' = IF entry = "greedy_decode" THEN vpc ELSE "raised"
  /\ tpc' = IF entry = "train_model" THEN OnFatal ELSE tpc
  /\ UNCHANGED <<max_len, decoder_input, encode_calls, steps, exit_via, encoder_output, decode_calls>>
  /\ UNCHANGED <<validation_ds, num_examples, count, consumed, decoded, reported, model_out>>
  /\ UNCHANGED <<cvars, epoch, global_step, bvars, disk, last_save, logged, hvars>>
  /\ UNCHANGED <<entry, toks, evars, mode, mvars>>

\* line 47: hand decoder_input back to the caller
GD_Return ==
  /\ gpc = "return"
  /\ IF entry = "greedy_decode"
       THEN /\ gpc' = "done"
            /\ UNCHANGED <<decoder_input, encoder_output, decode_calls, vvars>>
       ELSE /\ gpc' = "idle"
            /\ decoder_input' = <<>>
            /\ encoder_output' = 0
            /\ decode_calls' = <<>>
            /\ model_out' = decoder_input
            /\ vpc' = "report"
            /\ UNCHANGED <<validation_ds, num_examples, count, consumed, decoded, reported>>
  /\ UNCHANGED <<max_len, encode_calls, steps, exit_via>>
  /\ UNCHANGED <<entry, toks, evars, mode, mvars, tvars>>

\* -------------------------------------------------------- run_validation
BatchSizeOk_mC5(size) == size >= 1
\* line 67: assert encoder_input.size(0) == 1
BatchSizeOk(size) == size = 1

EnoughExamples_mC4(c, n) == c > n
EnoughExamples_mC17(c, n) == c >= n
\* line 94: count == num_examples
EnoughExamples(c, n) == c = n

\* loaders of up to MaxValBatches batches; a batch has leading dimension 1
\* or, for a loader not built with batch_size = 1, MaxBatchSize
Loaders == UNION {[1 .. n -> {1, MaxBatchSize}] : n \in 0 .. MaxValBatches}

\* line 50: a caller invokes run_validation on a loader
Call_run_validation ==
  /\ entry = "none"
  /\ entry' = "run_validation"
  /\ \E ds \in Loaders : validation_ds' = ds
  /\ \E n \in -1 .. MaxExamples : num_examples' = n
  /\ \E L \in {1, 2} : max_len' = L
  /\ vpc' = "enter"
  /\ UNCHANGED <<count, consumed, decoded, reported, model_out>>
  /\ UNCHANGED <<gpc, decoder_input, encode_calls, steps, exit_via, encoder_output, decode_calls>>
  /\ UNCHANGED <<toks, evars, mode, mvars, tvars>>

\* lines 51-61: model.eval(), count = 0, start iterating the loader
RV_Enter ==
  /\ vpc = "enter"
  /\ mode' = "eval"
  /\ count' = 0
  /\ vpc' = "for"
  /\ UNCHANGED <<validation_ds, num_examples, consumed, decoded, reported, model_out>>
  /\ UNCHANGED <<entry, toks, evars, gvars, mvars, tvars>>

\* lines 62-69: draw the next batch, count it, check its size, call greedy_decode
RV_NextBatch ==
  /\ vpc = "for"
  /\ consumed < Len(validation_ds)
  /\ consumed' = consumed + 1
  /\ count' = count + 1
  /\ IF BatchSizeOk(validation_ds[consumed + 1])
       THEN /\ vpc' = "decoding"
            /\ decoded' = decoded + 1
            /\ gpc' = "enter"
            /\ encode_calls' = 0
            /\ steps' = 0
            /\ exit_via' = "none"
       ELSE /\ vpc' = "assert_failed"
            /\ UNCHANGED <<decoded, gpc, encode_calls, steps, exit_via>>
  /\ UNCHANGED <<validation_ds, num_examples, reported, model_out, max_len, decoder_input>>
  /\ UNCHANGED <<encoder_output, decode_calls>>
  /\ UNCHANGED <<entry, toks, evars, mode, mvars, tvars>>

\* line 62: the loader is exhausted, the function returns
RV_Exhausted ==
  /\ vpc = "for"
  /\ consumed = Len(validation_ds)
  /\ vpc' = "returned"
  /\ UNCHANGED <<validation_ds, num_examples, count, consumed, decoded, reported, model_out>>
  /\ UNCHANGED <<entry, toks, evars, gvars, mode, mvars, tvars>>

\* lines 70-95: print the texts, leave the loop after num_examples batches
RV_Report ==
  /\ vpc = "report"
  /\ reported' = reported + 1
  /\ model_out' = <<>>
  /\ vpc' = IF EnoughExamples(count, num_examples) THEN "returned" ELSE "for"
  /\ UNCHANGED <<validation_ds, num_examples, count, consumed, decoded>>
  /\ UNCHANGED <<entry, toks, evars, gvars, mode, mvars, tvars>>

\* ----------------------------------------------------------- train_model
RECURSIVE Digits(_)
\* decimal digits of a natural number, most significant first
Digits(n) == IF n < 10 THEN <<n>> ELSE Append(Digits(n \div 10), n % 10)

\* line 233: f"{epoch:02d}"
Fmt02(e) == IF e < 10 THEN <<0, e>> ELSE Digits(e)

\* config.get_weights_file_path: the file of the folder with this epoch suffix
get_weights_file_path(suffix) == suffix

RECURSIVE LexLess(_, _)
\* string order of two file names
LexLess(a, b) ==
  IF a = <<>> THEN b # <<>>
  ELSE IF b = <<>> THEN FALSE
  ELSE IF Head(a) # Head(b) THEN Head(a) < Head(b)
  ELSE LexLess(Tail(a), Tail(b))

\* config.latest_weights_file_path: the greatest file name of the folder, or None
latest_weights_file_path(d) ==
  IF DOMAIN d = {} THEN <<>>
  ELSE CHOOSE f \in DOMAIN d : \A g \in DOMAIN d : g = f \/ LexLess(g, f)

\* config['preload']: None, 'latest' or an epoch suffix
Preloads ==
  {[kind |-> "none", name |-> <<>>], [kind |-> "latest", name |-> <<>>]}
    \cup {[kind |-> "explicit", name |-> Fmt02(e)] : e \in 0 .. MaxEpochs - 1}
    \cup {[kind |-> "explicit", name |-> Digits(1)]}

\* line 180: the file to preload, <<>> for None
ModelFilename(p, d) ==
  IF p.kind = "latest" THEN latest_weights_file_path(d)
  ELSE IF p.kind = "explicit" THEN get_weights_file_path(p.name)
  ELSE <<>>

InitialEpochOf_mC7(st) == st.epoch
\* line 185: initial_epoch = state['epoch'] + 1
InitialEpochOf(st) == st.epoch + 1

GlobalStepOf_mC8(st) == 0
\* line 187: global_step = state['global_step']
GlobalStepOf(st) == st.global_step

Checkpoint_mC10(e, p, o, g) ==
  [epoch |-> e, model_state_dict |-> p, optimizer_state_dict |-> o, global_step |-> g + 1]
\* lines 234-239: the dictionary handed to torch.save
Checkpoint(e, p, o, g) ==
  [epoch |-> e, model_state_dict |-> p, optimizer_state_dict |-> o, global_step |-> g]

\* line 191 with lines 210-213: positions the cross entropy does not ignore
LossPositions(lbl, ignore) == {i \in 1 .. Len(lbl) : lbl[i] # ignore}

NextGlobalStep_mC15(g) == g + 2
\* line 227: global_step += 1
NextGlobalStep(g) == g + 1

AfterBatches_mC6 == "Checkpointing"
\* line 230: the statement after the batch loop is the validation call
AfterBatches == "Validating"

\* everything a fresh process holds in memory before train_model runs
FreshMemory ==
  /\ gpc' = "idle" /\ max_len' = 0 /\ decoder_input' = <<>>
  /\ encoder_output' = 0 /\ decode_calls' = <<>>
  /\ encode_calls' = 0 /\ steps' = 0 /\ exit_via' = "none"
  /\ vpc' = "idle" /\ validation_ds' = <<>> /\ num_examples' = 0 /\ count' = 0
  /\ consumed' = 0 /\ decoded' = 0 /\ reported' = 0 /\ model_out' = <<>>
  /\ bpc' = "idle" /\ batches' = 0 /\ label' = <<>> /\ loss_positions' = {}
  /\ last_save' = <<>> /\ logged' = <<>> /\ trained' = {} /\ validated' = {} /\ saved' = {}
  /\ epoch_end' = <<>>
  /\ mode' = "train" /\ grad' = FALSE

\* lines 159-191: a process runs train_model on the model folder
TM_Load ==
  /\ \/ entry = "none"
     \/ entry = "train_model" /\ tpc \in {"Done", "Failed"}
  /\ run < MaxRuns
  /\ entry' = "train_model"
  /\ run' = run + 1
  /\ FreshMemory
  /\ \E p \in Preloads, n \in 1 .. MaxEpochs, v \in {1, MaxValBatches} :
       /\ preload' = p
       /\ num_epochs' = n
       /\ val_data_loader' = [i \in 1 .. v |-> 1]
       /\ LET model_filename == ModelFilename(p, disk) IN
            IF model_filename = <<>>
              THEN /\ state' = <<>>
                   /\ params' = 0 /\ opt_state' = 0
                   /\ initial_epoch' = 0 /\ epoch' = 0 /\ global_step' = 0
                   /\ ignore_index' = tokenizer_src.pad
                   /\ tpc' = "for_epoch"
            ELSE IF model_filename \in DOMAIN disk
              THEN /\ state' = <<disk[model_filename]>>
                   /\ params' = disk[model_filename].model_state_dict
                   /\ opt_state' = disk[model_filename].optimizer_state_dict
                   /\ initial_epoch' = InitialEpochOf(disk[model_filename])
                   /\ epoch' = InitialEpochOf(disk[model_filename])
                   /\ global_step' = GlobalStepOf(disk[model_filename])
                   /\ ignore_index' = tokenizer_src.pad
                   /\ tpc' = "for_epoch"
              ELSE /\ state' = <<>>
                   /\ params' = 0 /\ opt_state' = 0
                   /\ initial_epoch' = 0 /\ epoch' = 0 /\ global_step' = 0
                   /\ ignore_index' = -1
                   /\ tpc' = "Failed"
  /\ UNCHANGED <<toks, evars, disk>>

\* lines 193-196: the next epoch starts
TM_EpochStart ==
  /\ tpc = "for_epoch"
  /\ epoch < num_epochs
  /\ mode' = "train"
  /\ batches' = 0
  /\ bpc' = "for_batch"
  /\ tpc' = "EpochRunning"
  /\ UNCHANGED <<label, loss_positions>>
  /\ UNCHANGED <<cvars, epoch, global_step, disk, last_save, logged, hvars>>
  /\ UNCHANGED <<entry, toks, evars, gvars, vvars, mvars>>

\* line 193: range(initial_epoch, num_epochs) is exhausted
TM_Finished ==
  /\ tpc = "for_epoch"
  /\ epoch >= num_epochs
  /\ tpc' = "Done"
  /\ UNCHANGED <<cvars, epoch, global_step, bvars, disk, last_save, logged, hvars>>
  /\ UNCHANGED <<entry, toks, evars, gvars, vvars, mode, mvars>>

\* the frame of a statement of the batch loop
BatchFrame ==
  /\ UNCHANGED <<tpc, cvars, epoch, disk, last_save, hvars>>
  /\ UNCHANGED <<entry, toks, evars, gvars, vvars, mode>>

\* line 198: the loader yields the next batch
TM_NextBatch ==
  /\ tpc = "EpochRunning" /\ bpc = "for_batch"
  /\ batches < NumBatches
  /\ batches' = batches + 1
  /\ bpc' = "forward"
  /\ UNCHANGED <<label, loss_positions, global_step, mvars>>
  /\ UNCHANGED logged
  /\ BatchFrame

\* lines 199-207: encode, decode, project
TM_Forward ==
  /\ tpc = "EpochRunning" /\ bpc = "forward"
  /\ bpc' = "loss"
  /\ UNCHANGED <<batches, label, loss_positions, global_step, mvars>>
  /\ UNCHANGED logged
  /\ BatchFrame

\* lines 210-214: cross entropy of the logits against the batch's label
TM_Loss ==
  /\ tpc = "EpochRunning" /\ bpc = "loss"
  /\ \E lbl \in [1 .. LabelLen -> Vocab] :
       /\ label' = lbl
       /\ loss_positions' = LossPositions(lbl, ignore_index)
  /\ bpc' = "log"
  /\ UNCHANGED <<batches, global_step, mvars>>
  /\ UNCHANGED logged
  /\ BatchFrame

\* lines 217-218: writer.add_scalar, writer.flush
TM_Log ==
  /\ tpc = "EpochRunning" /\ bpc = "log"
  /\ logged' = Append(logged, global_step)
  /\ bpc' = "backward"
  /\ UNCHANGED <<batches, label, loss_positions, global_step, mvars>>
  /\ BatchFrame

\* line 221: loss.backward() turns the loss into gradients
TM_Backward ==
  /\ tpc = "EpochRunning" /\ bpc = "backward"
  /\ grad' = TRUE
  /\ bpc' = "step"
  /\ label' = <<>>
  /\ loss_positions' = {}
  /\ UNCHANGED <<batches, global_step, params, opt_state>>
  /\ UNCHANGED logged
  /\ BatchFrame

\* line 224: optimizer.step()
TM_OptStep ==
  /\ tpc = "EpochRunning" /\ bpc = "step"
  /\ params' = params + 1
  /\ opt_state' = opt_state + 1
  /\ bpc' = "zero_grad"
  /\ UNCHANGED <<batches, label, loss_positions, global_step, grad>>
  /\ UNCHANGED logged
  /\ BatchFrame

\* line 225: optimizer.zero_grad(set_to_none=True)
TM_ZeroGrad ==
  /\ tpc = "EpochRunning" /\ bpc = "zero_grad"
  /\ grad' = FALSE
  /\ bpc' = "inc"
  /\ UNCHANGED <<batches, label, loss_positions, global_step, params, opt_state>>
  /\ UNCHANGED logged
  /\ BatchFrame

\* line 227: global_step += 1, the iteration ends
TM_IncStep ==
  /\ tpc = "EpochRunning" /\ bpc = "inc"
  /\ global_step' = NextGlobalStep(global_step)
  /\ bpc' = "for_batch"
  /\ UNCHANGED <<batches, label, loss_positions, mvars>>
  /\ UNCHANGED logged
  /\ BatchFrame

\* lines 198 and 230: the batch loop ends, run_validation is called
TM_BatchesDone ==
  /\ tpc = "EpochRunning" /\ bpc = "for_batch"
  /\ batches = NumBatches
  /\ bpc' = "idle"
  /\ trained' = trained \cup {epoch}
  /\ epoch_end' = <<[params |-> params, opt_state |-> opt_state, global_step |-> global_step]>>
  /\ tpc' = AfterBatches
  /\ IF AfterBatches = "Validating"
       THEN /\ vpc' = "enter"
            /\ validation_ds' = val_data_loader
            /\ num_examples' = DefaultNumExamples
            /\ max_len' = SeqLen
            /\ consumed' = 0 /\ decoded' = 0 /\ reported' = 0
            /\ UNCHANGED <<count, model_out>>
       ELSE UNCHANGED <<vvars, max_len>>
  /\ UNCHANGED <<gpc, decoder_input, encode_calls, steps, exit_via, encoder_output, decode_calls>>
  /\ UNCHANGED <<batches, label, loss_positions, validated, saved>>
  /\ UNCHANGED <<cvars, epoch, global_step, disk, last_save, logged>>
  /\ UNCHANGED <<entry, toks, evars, mode, mvars>>

\* line 230: run_validation has returned
TM_ValidationReturned ==
  /\ tpc = "Validating"
  /\ vpc = "returned"
  /\ vpc' = "idle"
  /\ validated' = validated \cup {epoch}
  /\ tpc' = "Checkpointing"
  /\ UNCHANGED <<validation_ds, num_examples, count, consumed, decoded, reported, model_out>>
  /\ UNCHANGED <<trained, saved, epoch_end>>
  /\ UNCHANGED <<cvars, epoch, global_step, bvars, disk, last_save, logged>>
  /\ UNCHANGED <<entry, toks, evars, gvars, mode, mvars>>

\* lines 233-239: torch.save of the epoch's checkpoint, then the next epoch
TM_Save ==
  /\ tpc = "Checkpointing"
  /\ LET model_filename == get_weights_file_path(Fmt02(epoch)) IN
       /\ disk' = [f \in DOMAIN disk \cup {model_filename} |->
                     IF f = model_filename
                       THEN Checkpoint(epoch, params, opt_state, global_step)
                       ELSE disk[f]]
       /\ last_save' = <<[name |-> model_filename,
                          existed |-> model_filename \in DOMAIN disk,
                          again |-> epoch \in saved]>>
  /\ saved' = saved \cup {epoch}
  /\ epoch' = epoch + 1
  /\ tpc' = "for_epoch"
  /\ UNCHANGED <<trained, validated, epoch_end>>
  /\ UNCHANGED <<cvars, global_step, bvars, logged>>
  /\ UNCHANGED <<entry, toks, evars, gvars, vvars, mode, mvars>>

\* ------------------------------------------------------ BilingualDataset
\* ids the tokenizer gives to text: every id but PAD, SOS and EOS
Words(tok) == Vocab \ {tok.pad, tok.sos, tok.eos}

\* token id sequences of up to n tokens
Sentences(tok, n) == UNION {[1 .. k -> Words(tok)] : k \in 0 .. n}

\* n copies of the id
Pad(n, id) == [i \in 1 .. n |-> id]

EncPadCount_mC11(n, L) == L - n - 1
\* pad count of the source side: SOS and EOS are added
EncPadCount(n, L) == L - n - 2

\* pad count of the target side: SOS only (EOS only in the label)
DecPadCount(m, L) == L - m - 1

\* encoder_input = [SOS] + src_ids + [EOS] + PAD x p_enc
EncoderInput(src, L, tok) ==
  <<tok.sos>> \o src \o <<tok.eos>> \o Pad(EncPadCount(Len(src), L), tok.pad)

\* decoder_input = [SOS] + tgt_ids + PAD x p_dec
DecoderInput(tgt, L, tok) ==
  <<tok.sos>> \o tgt \o Pad(DecPadCount(Len(tgt), L), tok.pad)

Label_mC12(tgt, L, tok) ==
  tgt \o Pad(DecPadCount(Len(tgt), L), tok.pad) \o <<tok.eos>>
\* label = tgt_ids + [EOS] + PAD x p_dec
Label(tgt, L, tok) ==
  tgt \o <<tok.eos>> \o Pad(DecPadCount(Len(tgt), L), tok.pad)

\* lines 133-134: a dataset of sequence length L is built over a raw pair
Call_BilingualDataset ==
  /\ entry = "none"
  /\ entry' = "BilingualDataset"
  /\ \E L \in 1 .. MaxLen : seq_len' = L
  /\ \E src \in Sentences(tokenizer_src, MaxLen) : src_ids' = src
  /\ \E tgt \in Sentences(tokenizer_tgt, MaxLen) : tgt_ids' = tgt
  /\ dpc' = "getitem"
  /\ UNCHANGED example
  /\ UNCHANGED <<toks, gvars, vvars, mode, mvars, tvars>>

\* the pair is encoded, or rejected with a length error when it does not fit
BD_Encode ==
  /\ dpc = "getitem"
  /\ IF EncPadCount(Len(src_ids), seq_len) < 0 \/ DecPadCount(Len(tgt_ids), seq_len) < 0
       THEN /\ dpc' = "length_error"
            /\ UNCHANGED example
       ELSE /\ dpc' = "encoded"
            /\ example' = <<[encoder_input |-> EncoderInput(src_ids, seq_len, tokenizer_src),
                             decoder_input |-> DecoderInput(tgt_ids, seq_len, tokenizer_tgt),
                             label |-> Label(tgt_ids, seq_len, tokenizer_tgt)]>>
  /\ UNCHANGED <<src_ids, tgt_ids, seq_len>>
  /\ UNCHANGED <<entry, toks, gvars, vvars, mode, mvars, tvars>>

\* ----------------------------------------------------------- the process
Init ==
  /\ entry = "none"
  /\ tokenizer_src \in Tokenizers
  /\ tokenizer_tgt \in Tokenizers
  /\ gpc = "idle" /\ max_len = 0 /\ decoder_input = <<>>
  /\ encoder_output = 0 /\ decode_calls = <<>>
  /\ encode_calls = 0 /\ steps = 0 /\ exit_via = "none"
  /\ vpc = "idle" /\ validation_ds = <<>> /\ num_examples = 0 /\ count = 0
  /\ consumed = 0 /\ decoded = 0 /\ reported = 0 /\ model_out = <<>>
  /\ mode = "train" /\ params = 0 /\ opt_state = 0 /\ grad = FALSE
  /\ tpc = "idle" /\ bpc = "idle" /\ run = 0
  /\ preload = [kind |-> "none", name |-> <<>>] /\ num_epochs = 0
  /\ val_data_loader = <<>> /\ state = <<>>
  /\ initial_epoch = 0 /\ epoch = 0 /\ global_step = 0 /\ ignore_index = -1
  /\ batches = 0 /\ label = <<>> /\ loss_positions = {}
  /\ disk = <<>> /\ last_save = <<>> /\ logged = <<>>
  /\ trained = {} /\ validated = {} /\ saved = {} /\ epoch_end = <<>>
  /\ dpc = "idle" /\ src_ids = <<>> /\ tgt_ids = <<>> /\ seq_len = 0 /\ example = <<>>

Next ==
  \/ Call_greedy_decode \/ GD_Enter \/ GD_BreakMaxLen \/ GD_Step \/ GD_Return
  \/ GD_Raise
  \/ Call_run_validation \/ RV_Enter \/ RV_NextBatch \/ RV_Exhausted \/ RV_Report
  \/ TM_Load \/ TM_EpochStart \/ TM_Finished
  \/ TM_NextBatch \/ TM_Forward \/ TM_Loss \/ TM_Log \/ TM_Backward
  \/ TM_OptStep \/ TM_ZeroGrad \/ TM_IncStep
  \/ TM_BatchesDone \/ TM_ValidationReturned \/ TM_Save
  \/ Call_BilingualDataset \/ BD_Encode

Spec == Init /\ [][Next]_vars

\* ------------------------------------------------------------ properties
Last(d) == d[Len(d)]

\* greedy_decode is at or past its return statement
Decoded == gpc \in {"return", "done"}

\* C1: for max_len L >= 1 greedy_decode is bounded: every pass of the loop is
\* one decode step and appends one token, there are at most L-1 of them, the
\* loop is still running only while no EOS was appended, and the returned
\* sequence has between 1 and L tokens and stopped at the first appended EOS
\* or at length L.
C1_DecodeTerminates ==
  (gpc \in {"loop", "return", "done"} /\ max_len >= 1) =>
    /\ Len(decoder_input) = steps + 1
    /\ steps <= max_len - 1
    /\ Len(decoder_input) \in 1 .. max_len
    /\ \A i \in 2 .. Len(decoder_input) - 1 : decoder_input[i] # tokenizer_tgt.eos
    /\ gpc = "loop" /\ steps > 0 => Last(decoder_input) # tokenizer_tgt.eos
    /\ Decoded => \/ steps > 0 /\ Last(decoder_input) = tokenizer_tgt.eos
                  \/ Len(decoder_input) = max_len

C1_Witness ==
  /\ entry = "greedy_decode" /\ gpc = "done"
  /\ max_len = MaxLen /\ Len(decoder_input) = MaxLen /\ steps = MaxLen - 1

\* C2: when the first decode step yields EOS and max_len >= 2, the result is
\* exactly [SOS, EOS] after exactly one decode step, and the loop was left by
\* the EOS check.
C2_EosAtFirstStep ==
  (Decoded /\ max_len >= 2 /\ Len(decoder_input) >= 2
     /\ decoder_input[2] = tokenizer_tgt.eos) =>
    /\ decoder_input = <<tokenizer_tgt.sos, tokenizer_tgt.eos>>
    /\ steps = 1
    /\ exit_via = "eos"

C2_Witness ==
  /\ entry = "greedy_decode" /\ gpc = "done" /\ max_len = 2
  /\ decoder_input = <<tokenizer_tgt.sos, tokenizer_tgt.eos>>
  /\ exit_via = "eos"

\* the shape of a sequence greedy_decode returns for max length L
ReturnedShape(d, L, tok) ==
  /\ Len(d) >= 1
  /\ d[1] = tok.sos
  /\ \A i \in 1 .. Len(d) - 1 : d[i] # tok.eos
  /\ Last(d) # tok.eos => Len(d) = L

\* C3: a returned sequence starts with SOS, holds EOS nowhere but possibly at
\* its end, has no trailing EOS when the loop was left by the max-length
\* check, and has length exactly L when it does not end in EOS.
C3_ReturnedSequence ==
  /\ Decoded =>
       /\ ReturnedShape(decoder_input, max_len, tokenizer_tgt)
       /\ exit_via = "max_len" =>
            Last(decoder_input) # tokenizer_tgt.eos /\ Len(decoder_input) = max_len
  /\ vpc = "report" => ReturnedShape(model_out, max_len, tokenizer_tgt)

C3_Witness ==
  /\ gpc = "return" /\ exit_via = "max_len" /\ max_len = MaxLen
  /\ Len(decoder_input) = MaxLen
  /\ Last(decoder_input) # tokenizer_tgt.eos

\* C4: with num_examples = n >= 1 and a loader of N batches run_validation
\* never draws more than min(n, N) batches, and when it returns it has
\* decoded and reported exactly min(n, N) of them.
C4_ValidationCount ==
  (vpc \in {"for", "decoding", "report", "returned", "assert_failed"} /\ num_examples >= 1) =>
    /\ consumed <= Min(num_examples, Len(validation_ds))
    /\ vpc = "returned" =>
         /\ consumed = Min(num_examples, Len(validation_ds))
         /\ decoded = consumed
         /\ reported = consumed

C4_Witness ==
  /\ entry = "run_validation" /\ vpc = "returned"
  /\ num_examples = 2 /\ Len(validation_ds) = 5
  /\ consumed = 2 /\ decoded = 2 /\ reported = 2

\* C5: a batch whose leading dimension is not 1 stops run_validation at the
\* assertion: greedy_decode is not invoked on it, nothing is reported for it,
\* and greedy_decode only ever runs on a batch of size 1.
C5_BatchSizeAssertion ==
  (vpc \in {"for", "decoding", "report", "returned", "assert_failed"} /\ consumed >= 1) =>
    /\ validation_ds[consumed] # 1 =>
         /\ vpc = "assert_failed"
         /\ gpc = "idle"
         /\ decoded = consumed - 1
         /\ reported = consumed - 1
    /\ vpc = "assert_failed" => validation_ds[consumed] # 1
    /\ vpc = "decoding" => validation_ds[consumed] = 1

C5_Witness ==
  /\ vpc = "assert_failed" /\ consumed = 2
  /\ validation_ds[1] = 1 /\ validation_ds[2] = 2
  /\ decoded = 1 /\ reported = 1

\* a train_model run is past its preload
Training == entry = "train_model" /\ tpc \notin {"idle", "Failed"}

\* C6: in every run the epochs go through training, validation and
\* checkpoint in this order: an epoch is checkpointed only after its
\* validation returned, validated only after all its batches were processed,
\* and an epoch is trained only when every earlier epoch of the run has its
\* checkpoint; the run is Done when every epoch has its checkpoint.
C6_PhaseOrder ==
  Training =>
    /\ saved \subseteq validated
    /\ validated \subseteq trained
    /\ trained \subseteq initial_epoch .. num_epochs - 1
    /\ saved = initial_epoch .. epoch - 1
    /\ tpc = "EpochRunning" => epoch \notin trained /\ epoch < num_epochs
    /\ batches > 0 /\ tpc = "EpochRunning" => saved = initial_epoch .. epoch - 1
    /\ tpc = "Validating" =>
         epoch \in trained /\ epoch \notin validated /\ batches = NumBatches
    /\ tpc = "Checkpointing" =>
         epoch \in validated /\ epoch \notin saved /\ batches = NumBatches
    /\ tpc = "Done" => epoch >= num_epochs /\ trained = saved

C6_Witness ==
  /\ Training /\ tpc = "Done"
  /\ initial_epoch = 0 /\ num_epochs = MaxEpochs
  /\ saved = 0 .. MaxEpochs - 1
  /\ validated = saved

\* C7, as the specification states it: every checkpoint write creates a file
\* that did not exist before.
C7_NeverOverwrites ==
  last_save # <<>> => ~last_save[1].existed

\* C7, amended: a run writes no checkpoint file twice, each write goes to the
\* file named after the epoch just trained, and the first run on the folder
\* and every run with preload = 'latest' create a new file at every write.
C7_NoOverwriteWithinRun ==
  (Training /\ last_save # <<>>) =>
    /\ ~last_save[1].again
    /\ last_save[1].name = Fmt02(epoch - 1)
    /\ last_save[1].name \in DOMAIN disk
    /\ disk[last_save[1].name].epoch = epoch - 1
    /\ (run = 1 \/ preload.kind = "latest") => ~last_save[1].existed

C7_Witness ==
  /\ Training /\ run = 2 /\ preload.kind = "latest"
  /\ state # <<>>
  /\ last_save # <<>> /\ ~last_save[1].existed

\* C8: a preloaded checkpoint of epoch e and step g makes the run start at
\* epoch e+1 with global_step = g, and every checkpoint in the folder, written
\* by a resumed run or not, holds the step count an uninterrupted run reaches
\* at the end of that epoch, (epoch+1) * NumBatches.
C8_Resumption ==
  /\ (Training /\ state # <<>>) =>
       /\ initial_epoch = state[1].epoch + 1
       /\ (tpc = "for_epoch" /\ epoch = initial_epoch) =>
            global_step = state[1].global_step
  /\ \A f \in DOMAIN disk :
       /\ f = Fmt02(disk[f].epoch)
       /\ disk[f].global_step = (disk[f].epoch + 1) * NumBatches

C8_Witness ==
  /\ Training /\ run = 2 /\ state # <<>> /\ state[1].epoch = 0
  /\ saved = {1}
  /\ Fmt02(1) \in DOMAIN disk
  /\ disk[Fmt02(1)].global_step = 2 * NumBatches

\* C9: a label position enters the loss reduction iff its id is not the PAD
\* id of the target tokenizer.
C9_LossIgnoresTargetPad ==
  bpc \in {"log", "backward"} =>
    loss_positions = {i \in 1 .. Len(label) : label[i] # tokenizer_tgt.pad}

\* C10: run_validation leaves the parameters, the optimizer state and
\* global_step as they were after the last optimizer step of the epoch, and
\* the checkpoint written after it holds exactly these values.
C10_ValidationObservational ==
  /\ (Training /\ tpc \in {"Validating", "Checkpointing"}) =>
       /\ epoch_end # <<>>
       /\ params = epoch_end[1].params
       /\ opt_state = epoch_end[1].opt_state
       /\ global_step = epoch_end[1].global_step
  /\ (Training /\ last_save # <<>> /\ tpc \in {"for_epoch", "EpochRunning", "Done"}) =>
       disk[last_save[1].name] =
         [epoch |-> epoch - 1,
          model_state_dict |-> epoch_end[1].params,
          optimizer_state_dict |-> epoch_end[1].opt_state,
          global_step |-> epoch_end[1].global_step]
  /\ entry = "run_validation" =>
       params = 0 /\ opt_state = 0 /\ global_step = 0 /\ ~grad

C10_Witness ==
  /\ Training /\ tpc = "for_epoch" /\ last_save # <<>>
  /\ reported = DefaultNumExamples
  /\ mode = "eval"
  /\ disk[last_save[1].name].model_state_dict = NumBatches

\* C11: encoding with length L succeeds iff the source has at most L-2 and
\* the target at most L-1 tokens, otherwise it ends in a length error; on
\* success the three sequences have length exactly L, every token of the pair
\* is kept, and the source side holds exactly L-n-2 PAD ids (none for a
\* source of L-2 tokens).
C11_EncodingLength ==
  dpc \in {"encoded", "length_error"} =>
    LET n == Len(src_ids)
        m == Len(tgt_ids)
        L == seq_len
    IN /\ dpc = "encoded" <=> (n <= L - 2 /\ m <= L - 1)
       /\ dpc = "encoded" =>
            /\ Len(example[1].encoder_input) = L
            /\ Len(example[1].decoder_input) = L
            /\ Len(example[1].label) = L
            /\ SubSeq(example[1].encoder_input, 2, n + 1) = src_ids
            /\ SubSeq(example[1].decoder_input, 2, m + 1) = tgt_ids
            /\ SubSeq(example[1].label, 1, m) = tgt_ids
            /\ {i \in 1 .. L : example[1].encoder_input[i] = tokenizer_src.pad}
                 = (n + 3) .. L
            /\ Cardinality({i \in 1 .. L : example[1].encoder_input[i] = tokenizer_src.pad})
                 = L - n - 2

C11_Witness ==
  /\ dpc = "encoded" /\ seq_len = MaxLen
  /\ Len(src_ids) = MaxLen - 2
  /\ Last(example[1].encoder_input) = tokenizer_src.eos

\* C12, as the specification states it: label[i] = decoder_input[i+1] for
\* every i from 0 to L-2 (positions counted from 0).
C12_ShiftedEverywhere ==
  dpc = "encoded" =>
    /\ example[1].decoder_input[1] = tokenizer_tgt.sos
    /\ \A i \in 1 .. seq_len - 1 :
         example[1].label[i] = example[1].decoder_input[i + 1]
    /\ Last(example[1].label) \in {tokenizer_tgt.eos, tokenizer_tgt.pad}

\* C12, amended: with m target tokens, label and decoder_input shifted by
\* one agree on the m target tokens and on the padding after position m; at
\* position m the label holds EOS where the shifted decoder_input, if it has
\* that position, holds PAD.
C12_ShiftedButEos ==
  dpc = "encoded" =>
    LET m == Len(tgt_ids)
        L == seq_len
        dec == example[1].decoder_input
        lab == example[1].label
    IN /\ dec[1] = tokenizer_tgt.sos
       /\ \A i \in 1 .. L - 1 : i # m + 1 => lab[i] = dec[i + 1]
       /\ lab[m + 1] = tokenizer_tgt.eos
       /\ m + 2 <= L => dec[m + 2] = tokenizer_tgt.pad
       /\ Last(lab) \in {tokenizer_tgt.eos, tokenizer_tgt.pad}

C12_Witness ==
  /\ dpc = "encoded" /\ seq_len = MaxLen
  /\ Len(tgt_ids) = 1
  /\ example[1].label[2] = tokenizer_tgt.eos
  /\ example[1].decoder_input[3] = tokenizer_tgt.pad

\* greedy_decode is between its encode call and its return
InDecode == gpc \in {"loop", "return", "done"}

\* C13: one greedy_decode calls model.encode exactly once, before any decode
\* step, and every decode step is given that encoder_output and the caller's
\* source_mask, however many steps there are (none when max_len = 1).
C13_EncodeOnce ==
  /\ gpc = "enter" => decode_calls = <<>> /\ encoder_output = 0
  /\ InDecode =>
       /\ encode_calls = 1
       /\ encoder_output = 1
       /\ Len(decode_calls) = steps
       /\ max_len = 1 => steps = 0
       /\ \A i \in 1 .. Len(decode_calls) :
            /\ decode_calls[i].encoder_output = encoder_output
            /\ decode_calls[i].source_mask = "source_mask"

C13_Witness ==
  /\ entry = "greedy_decode" /\ gpc = "done" /\ max_len = MaxLen
  /\ encode_calls = 1
  /\ Len(decode_calls) = MaxLen - 1
  /\ decode_calls[MaxLen - 1].encoder_output = decode_calls[1].encoder_output

\* C14: the i-th decode step works on a prefix of k = i tokens, its target
\* mask is the k x k causal mask (entry (r, c) allowed iff c <= r), and the
\* next token comes from the logits of position k-1; the prefix is one token
\* longer after each step.
C14_CausalMaskPerStep ==
  InDecode =>
    /\ Len(decoder_input) = Len(decode_calls) + 1
    /\ \A i \in 1 .. Len(decode_calls) :
         LET c == decode_calls[i] IN
           /\ c.k = i
           /\ DOMAIN c.decoder_mask = (0 .. i - 1) \X (0 .. i - 1)
           /\ \A row \in 0 .. i - 1, col \in 0 .. i - 1 :
                c.decoder_mask[<<row, col>>] = (col <= row)
           /\ c.logits_at = i - 1

C14_Witness ==
  /\ entry = "greedy_decode" /\ gpc = "loop" /\ max_len = MaxLen
  /\ Len(decode_calls) = 2
  /\ decode_calls[2].k = 2
  /\ decode_calls[2].decoder_mask[<<1, 0>>]
  /\ ~decode_calls[2].decoder_mask[<<0, 1>>]

\* global_step at the start of the run: the restored one, or 0
StartStep == IF state = <<>> THEN 0 ELSE state[1].global_step

\* batches of this run that went through the whole loop body
BatchesProcessed ==
  Cardinality(trained) * NumBatches
    + (IF tpc = "EpochRunning"
         THEN batches - (IF bpc \in {"idle", "for_batch"} THEN 0 ELSE 1)
         ELSE 0)

\* C15: a batch goes through loss, log, backward, optimizer step, zero
\* gradients and step increment in this order; global_step is the start step
\* plus the batches processed; the loss is logged at the consecutive steps
\* g0, g0+1, ... once each; a checkpoint records the batches processed so far.
C15_StepPerBatch ==
  Training =>
    /\ global_step = StartStep + BatchesProcessed
    /\ logged = [i \in 1 .. Len(logged) |-> StartStep + i - 1]
    /\ Len(logged) = BatchesProcessed
         + (IF tpc = "EpochRunning" /\ bpc \in {"backward", "step", "zero_grad", "inc"}
              THEN 1 ELSE 0)
    /\ (tpc = "EpochRunning" /\ bpc \in {"log", "backward"}) <=> label # <<>>
    /\ grad <=> (tpc = "EpochRunning" /\ bpc \in {"step", "zero_grad"})
    /\ opt_state = global_step
         + (IF tpc = "EpochRunning" /\ bpc \in {"zero_grad", "inc"} THEN 1 ELSE 0)
    /\ params = opt_state
    /\ last_save # <<>> =>
         disk[last_save[1].name].global_step
           = StartStep + Cardinality(saved) * NumBatches

C15_Witness ==
  /\ Training /\ run = 2 /\ state # <<>>
  /\ StartStep = NumBatches
  /\ logged = [i \in 1 .. NumBatches |-> NumBatches + i - 1]
  /\ last_save # <<>>
  /\ global_step = 2 * NumBatches

\* a fatal condition was raised while run_validation ran inside train_model
FatalInValidation == entry = "train_model" /\ vpc = "raised"

\* C16, as the specification states it: after a fatal condition in the
\* validation of epoch e the newest checkpoint in the folder is the one of
\* epoch e-1, or there is none.
C16_NewestIsPrevious ==
  FatalInValidation =>
    /\ tpc = "Failed"
    /\ epoch \notin saved
    /\ \A f \in DOMAIN disk : disk[f].epoch <= epoch - 1
    /\ DOMAIN disk # {} => Fmt02(epoch - 1) \in DOMAIN disk

\* C16, amended: a fatal condition in the validation of epoch e ends the run
\* at once: the run has saved exactly the epochs before e, has trained e and
\* nothing later, and the newest checkpoint it wrote is the one of epoch e-1,
\* which lacks the NumBatches updates of epoch e (or it wrote none).
C16_AbortWithoutCheckpoint ==
  FatalInValidation =>
    /\ tpc = "Failed"
    /\ epoch < num_epochs
    /\ epoch \notin saved
    /\ saved = initial_epoch .. epoch - 1
    /\ validated = saved
    /\ trained = saved \cup {epoch}
    /\ last_save = <<>> <=> epoch = initial_epoch
    /\ last_save # <<>> =>
         /\ last_save[1].name = Fmt02(epoch - 1)
         /\ disk[last_save[1].name].epoch = epoch - 1
         /\ disk[last_save[1].name].global_step = global_step - NumBatches
         /\ disk[last_save[1].name].model_state_dict = params - NumBatches

C16_Witness ==
  /\ FatalInValidation /\ tpc = "Failed" /\ run = 1
  /\ epoch = 1 /\ saved = {0} /\ trained = {0, 1}
  /\ DOMAIN disk = {Fmt02(0)}

\* C17: count is incremented before it is compared, so it is at least 1 at
\* the comparison and a run_validation that returns from a non-empty loader
\* has processed at least one batch; with num_examples 0, negative or above
\* the N batches of the loader the break is never taken and all N batches are
\* processed.
C17_CountBeforeCompare ==
  /\ vpc \in {"decoding", "report"} => count >= 1 /\ count = consumed
  /\ vpc = "returned" =>
       /\ Len(validation_ds) >= 1 => reported >= 1
       /\ (num_examples <= 0 \/ num_examples > Len(validation_ds)) =>
            /\ consumed = Len(validation_ds)
            /\ decoded = Len(validation_ds)
            /\ reported = Len(validation_ds)

C17_Witness ==
  /\ entry = "run_validation" /\ vpc = "returned"
  /\ num_examples = 0
  /\ Len(validation_ds) = MaxValBatches
  /\ reported = MaxValBatches

====
